---------------------------- MODULE Spec2Model ----------------------------
(***************************************************************************)
(* A model of blackbird's job supervision engine (blackbird/sr71.py) and   *)
(* of its item pipeline (blackbird/plugins/base.py).                       *)
(*                                                                         *)
(*  - SpecFactory : main(): BlackBird.__init__ with job_factory, then      *)
(*                  start(), on a bounded family of configurations and     *)
(*                  command lines.                                         *)
(*  - Spec        : start() in debug mode: main_loop, the Executor         *)
(*                  threads, the bounded queue and a clock.                *)
(*  - SpecRetry   : the same with callbacks that always fail, under fair   *)
(*                  scheduling.                                            *)
(*  - SpecItem    : construction and reading of DiscoveryItem objects.     *)
(*                                                                         *)
(* Time is counted in whole seconds.  Python's None is the empty tuple and *)
(* a supplied optional value v is the 1-tuple <<v>>.                       *)
(***************************************************************************)
EXTENDS Integers, Sequences, FiniteSets, TLC

VARIABLES
    args,           \* BlackBird.args: the parsed command line
    config,         \* BlackBird.config: section name -> option name -> value
    config_error,   \* whether configread.ConfigReader raises in _get_config
    section_order,  \* iteration order of self.config.items() in job_factory
    jobs,           \* BlackBird.jobs: job name -> [method, interval]
    job_order,      \* iteration order of self.jobs.items() in main_loop
    pc_main,        \* position of the main thread
    error,          \* exception type that left main_loop / __init__ ("" if none)
    log,            \* entries written through the logger: entry -> how many
    threads,        \* every Executor ever started, by start order
    threadnames,    \* main_loop's local: names of the last liveness snapshot
    thread,         \* main_loop's local: the comprehension variable, leaked
    idx,            \* position of main_loop's for loop in job_order
    join_target,    \* the thread main_loop is joining (0: the main thread)
    join_deadline,  \* when the pending join(1) times out
    cycle_started,  \* job names main_loop started a thread for in this cycle
    now,            \* the clock: seconds since the epoch
    dst,            \* seconds of daylight saving in effect locally (0: none)
    hostname,       \* what socket.gethostname() returns on this machine
    queue,          \* JobCreator.queue: the items waiting, oldest first
    delivered,      \* the items the sender has taken from the queue, in order
    produced,       \* number of items the callbacks have offered so far
    item_args,      \* arguments of the DiscoveryItem constructor call
    item,           \* the constructed DiscoveryItem (<<>> before construction)
    read            \* what the last read of the item's clock and data returned

vars == <<args, config, config_error, section_order, jobs, job_order, pc_main, error,
          log, threads, threadnames, thread, idx, join_target, join_deadline,
          cycle_started, now, dst, hostname, queue, delivered, produced, item_args,
          item, read>>

None == <<>>
Some(v) == <<v>>

-----------------------------------------------------------------------------
(* Bounds of the model.                                                    *)

MaxTime == 3
MaxStarts == 3
MaxItems == 2

-----------------------------------------------------------------------------
(* Sequences helpers.                                                      *)

Range(s) == {s[i] : i \in 1..Len(s)}

Orderings(S) ==
    {s \in [1..Cardinality(S) -> S] : \A i, j \in 1..Cardinality(S) : s[i] = s[j] => i = j}

-----------------------------------------------------------------------------
(* JobCreator.job_factory                                                  *)

\* The plugin registry (self.plugins): module name -> collector class.  A class
\* is described by what job_factory looks at: whether it derives from
\* plugins.base.JobBase (metaclass ABCMeta, abstract looped_method), whether
\* it has an __init__ attribute, the argument names of that __init__, the
\* recognized callbacks the class itself defines, and what its __init__
\* raises ("" when it returns).  legacy, all3, abstract, broken and refusing
\* derive from JobBase; metric, lld and idle are classes of their own with the
\* same constructor signature.  The constructor of refusing raises the
\* BlackbirdError main() catches, with a string as its message.
ArgsPlain == {"self", "options", "queue", "logger"}
ArgsStats == {"self", "options", "queue", "stats_queue", "logger"}

Plugins ==
    [legacy   |-> [jobbase |-> TRUE, has_init |-> TRUE, init_args |-> ArgsPlain,
                   callbacks |-> {"looped_method"}, ctor_raises |-> ""],
     all3     |-> [jobbase |-> TRUE, has_init |-> TRUE, init_args |-> ArgsStats,
                   callbacks |-> {"looped_method", "build_items", "build_discovery_items"},
                   ctor_raises |-> ""],
     abstract |-> [jobbase |-> TRUE, has_init |-> TRUE, init_args |-> ArgsPlain,
                   callbacks |-> {"build_items"}, ctor_raises |-> ""],
     broken   |-> [jobbase |-> TRUE, has_init |-> TRUE, init_args |-> ArgsPlain,
                   callbacks |-> {"looped_method", "build_items"}, ctor_raises |-> "IOError"],
     refusing |-> [jobbase |-> TRUE, has_init |-> TRUE, init_args |-> ArgsPlain,
                   callbacks |-> {"looped_method"}, ctor_raises |-> "BlackbirdError"],
     metric   |-> [jobbase |-> FALSE, has_init |-> TRUE, init_args |-> ArgsPlain,
                   callbacks |-> {"build_items"}, ctor_raises |-> ""],
     lld      |-> [jobbase |-> FALSE, has_init |-> TRUE, init_args |-> ArgsStats,
                   callbacks |-> {"build_items", "build_discovery_items"}, ctor_raises |-> ""],
     idle     |-> [jobbase |-> FALSE, has_init |-> TRUE, init_args |-> ArgsPlain,
                   callbacks |-> {}, ctor_raises |-> ""]]

\* What job_kls(...) raises, "" when it returns an instance.  ABCMeta refuses
\* to instantiate a class that leaves JobBase's abstract looped_method
\* undefined (TypeError, before __init__ runs).
Instantiate(job_kls) ==
    IF job_kls.jobbase /\ "looped_method" \notin job_kls.callbacks
    THEN "TypeError"
    ELSE job_kls.ctor_raises

\* '-'.join([section, callback])
JobNameSectionOnly(section, callback) == section

JobName(section, callback) == section \o "-" \o callback

\* interval = default; if key in options: ...; elif key in config['global']: ...
ResolveIntervalGlobalFirst(options, global, key, default) ==
    IF key \in DOMAIN global THEN global[key]
    ELSE IF key \in DOMAIN options THEN options[key]
    ELSE default

ResolveInterval(options, global, key, default) ==
    IF key \in DOMAIN options THEN options[key]
    ELSE IF key \in DOMAIN global THEN global[key]
    ELSE default

\* The collector instance job_kls(options=..., queue=..., [stats_queue=...,] logger=...)
NewCollector(section, job_kls) ==
    [section |-> section,
     callbacks |-> job_kls.callbacks
                   \cup (IF job_kls.jobbase THEN {"looped_method"} ELSE {}),
     stats_queue |-> "stats_queue" \in job_kls.init_args]

\* The numbers of the logging module's levels, by the names logger_factory
\* and the logger's methods use; notset is the level of a logger nobody has
\* configured.
LevelNo ==
    ("notset" :> 0) @@ ("debug" :> 10) @@ ("info" :> 20) @@ ("warn" :> 30)
    @@ ("error" :> 40) @@ ("crit" :> 50)

\* logger_factory's levels dict: the names it translates.
Levels == {"debug", "info", "warn", "error", "crit"}

\* The logger 'blackbird': its level, whether logger_factory has given it a
\* handler, and the entries the handler has written (entry -> how many).
\* EmptyLog is the logger before logger_factory has run.
EmptyLog == [level |-> "notset", handler |-> FALSE, entries |-> [e \in {} |-> 0]]

NewLogger(level) == [level |-> level, handler |-> TRUE, entries |-> [e \in {} |-> 0]]

\* How many entries of that level that thread has had written.
Count(lg, level, who) ==
    LET e == [level |-> level, who |-> who]
    IN  IF e \in DOMAIN lg.entries THEN lg.entries[e] ELSE 0

\* logger.warn / logger.info / logger.error: one more entry of that level by
\* that thread (0 is the main thread), if the logger is enabled for the level
\* and has a handler to write it.
Logged(lg, level, who) ==
    LET e == [level |-> level, who |-> who]
    IN  IF lg.handler /\ LevelNo[level] >= LevelNo[lg.level]
        THEN [lg EXCEPT !.entries = (e :> Count(lg, level, who) + 1) @@ @]
        ELSE lg


\* jobs[name] = {'method': ..., 'interval': ...}
PutJob(table, name, method, interval) ==
    (name :> [method |-> method, interval |-> interval]) @@ table

\* The three "if hasattr(job_obj, ...)" blocks of one section, in order.
\* st is [jobs, log]; job_obj is the collector instance.
AddLooped(st, cfg, section, job_obj) ==
    IF "looped_method" \in job_obj.callbacks
    THEN [jobs |-> PutJob(st.jobs, JobName(section, "looped_method"),
                          <<job_obj.section, "looped_method">>,
                          ResolveInterval(cfg[section], cfg["global"], "interval", 60)),
          log |-> Logged(st.log, "warn", 0)]
    ELSE st

AddBuildItems(st, cfg, section, job_obj) ==
    IF "build_items" \in job_obj.callbacks
    THEN [jobs |-> PutJob(st.jobs, JobName(section, "build_items"),
                          <<job_obj.section, "build_items">>,
                          ResolveInterval(cfg[section], cfg["global"], "interval", 60)),
          log |-> Logged(st.log, "info", 0)]
    ELSE st

AddDiscovery(st, cfg, section, job_obj) ==
    IF "build_discovery_items" \in job_obj.callbacks
    THEN [jobs |-> PutJob(st.jobs, JobName(section, "build_discovery_items"),
                          <<job_obj.section, "build_discovery_items">>,
                          ResolveInterval(cfg[section], cfg["global"], "lld_interval", 600)),
          log |-> Logged(st.log, "info", 0)]
    ELSE st

\* The body of "for section, options in self.config.items()" from position i
\* of the iteration order on.  st is [jobs, log, job_obj]: job_obj is the local
\* variable, None until a collector has been constructed.  The result is
\* [raised, jobs, log]: raised is the type of the exception that left
\* job_factory, "" when it returned jobs.
Raise(exc, st) == [raised |-> exc, jobs |-> st.jobs, log |-> st.log]

AddJobs(st, cfg, section, job_obj) ==
    LET s0 == [jobs |-> st.jobs, log |-> st.log]
        s1 == AddLooped(s0, cfg, section, job_obj)
        s2 == AddBuildItems(s1, cfg, section, job_obj)
        s3 == AddDiscovery(s2, cfg, section, job_obj)
    IN  [jobs |-> s3.jobs, log |-> s3.log, job_obj |-> Some(job_obj)]

RECURSIVE JobFactoryLoop(_, _, _, _, _)
JobFactoryLoop(cfg, plugins, order, i, st) ==
    IF i > Len(order) THEN Raise("", st)
    ELSE LET section == order[i]
             options == cfg[section]
         IN  IF section = "global" THEN JobFactoryLoop(cfg, plugins, order, i + 1, st)
             ELSE IF "module" \notin DOMAIN options THEN Raise("KeyError", st)
             ELSE IF options["module"] \notin DOMAIN plugins THEN Raise("KeyError", st)
             ELSE LET job_kls == plugins[options["module"]]
                  IN  IF job_kls.has_init
                      THEN IF Instantiate(job_kls) # ""
                           THEN Raise(Instantiate(job_kls), st)
                           ELSE JobFactoryLoop(cfg, plugins, order, i + 1,
                                    AddJobs(st, cfg, section, NewCollector(section, job_kls)))
                      ELSE IF st.job_obj = None
                           THEN Raise("UnboundLocalError", st)
                           ELSE JobFactoryLoop(cfg, plugins, order, i + 1,
                                    AddJobs(st, cfg, section, st.job_obj[1]))

EmptyJobs == [n \in {} |-> [method |-> <<>>, interval |-> 0]]

\* logger is JobCreator.logger, the logger BlackBird hands over.
job_factory(cfg, plugins, order, logger) ==
    JobFactoryLoop(cfg, plugins, order, 1,
                   [jobs |-> EmptyJobs, log |-> logger, job_obj |-> None])

\* JobCreator.__init__: Queue.Queue(config['global']['max_queue_length'])
QueueMaxsizeUnbounded(cfg) == 0

QueueMaxsize(cfg) == cfg["global"]["max_queue_length"]

-----------------------------------------------------------------------------
(* main(), BlackBird.__init__ and BlackBird.start                          *)

\* argumentparse.get_args(): the namespace of the command line.  vars(args)
\* has these five keys.
Args(debug_mode, show_version) ==
    [debug_mode |-> debug_mode, show_version |-> show_version,
     detach_process |-> TRUE, pid_file |-> "blackbird.pid", config |-> "blackbird.cfg"]

\* main(): "except BlackbirdError" (the class of blackbird.utils.error) is the
\* only handler.
MainCatches(exc) == exc = "BlackbirdError"

\* What a BlackbirdError carries as its message: a string, or the exception
\* object it was built from (raise BlackbirdError(error)).
Messages == {"str", "exception"}

\* The classes sr71.py imports as BlackbirdError (blackbird.utils.error) and
\* BlackbirdPluginError (blackbird.plugins.base) are not defined under src/.
\* The shapes such a class can have: a plain subclass of Exception, whose
\* __str__ is Exception's, or the shape of the BlackbirdError of
\* plugins/base.py, which keeps the constructor's argument as self.message
\* and returns it from __str__.
ErrorClasses == {"plain", "message"}

\* error.__str__() for an exception of class kls built on that message: the
\* kind of object returned.  Exception.__str__ returns str() of the argument,
\* a string; the __str__ of plugins/base.py returns self.message, whatever
\* the constructor was given.
BlackbirdError_str(kls, message) == IF kls = "plain" THEN "str" ELSE message

\* The handler of main(): sys.stderr.write(error.__str__() + '\n') and
\* return(1).  What the handler raises, "" when it gets to return(1): an
\* exception object and '\n' cannot be added (TypeError).
MainHandler(kls, message) ==
    IF BlackbirdError_str(kls, message) = "str" THEN "" ELSE "TypeError"

\* Positions at which the process has ended: main() has returned 1, an
\* exception has left main(), or sys.exit(0) was called.
Exited == {"returned_1", "uncaught", "exited_0"}

\* Positions inside main_loop.
LoopPcs == {"snapshot", "loop", "join"}

\* logger.logger_factory(filename, level, fmt): setLevel(levels.get(level))
\* raises TypeError for a level the dict does not know (setLevel(None));
\* WatchedFileHandler takes os.path.abspath of the file name, which raises
\* AttributeError for a file object; an unknown fmt gives the default
\* format.  The result is [raised, logger]: the exception ("" when the
\* logger is returned) and the logger as it is then.
logger_factory(filename_is_str, level) ==
    IF level \notin Levels THEN [raised |-> "TypeError", logger |-> EmptyLog]
    ELSE IF ~filename_is_str
         THEN [raised |-> "AttributeError", logger |-> [EmptyLog EXCEPT !.level = level]]
         ELSE [raised |-> "", logger |-> NewLogger(level)]

\* BlackBird._set_logger.  In debug mode logger_factory gets sys.stdout as
\* the file name and the level 'debug'; otherwise the three logging options
\* of the global section are read (KeyError when one is missing).
set_logger(cfg, a) ==
    IF a.debug_mode THEN logger_factory(FALSE, "debug")
    ELSE IF /\ "global" \in DOMAIN cfg
            /\ {"log_file", "log_level", "log_format"} \subseteq DOMAIN cfg["global"]
         THEN logger_factory(TRUE, cfg["global"]["log_level"])
         ELSE [raised |-> "KeyError", logger |-> EmptyLog]

\* BlackBird._add_arguments: every section gets the key 'arguments'.
add_arguments(cfg, a) ==
    [section \in DOMAIN cfg |-> ("arguments" :> a) @@ cfg[section]]

\* BlackBird._create_threads: JobCreator(...) builds the two queues from
\* config['global']['max_queue_length'], then job_factory runs; nothing is
\* wrapped.  The result is [raised, config, jobs, log].
create_threads(cfg, order, logger) ==
    IF "max_queue_length" \notin DOMAIN cfg["global"]
    THEN [raised |-> "KeyError", config |-> cfg, jobs |-> EmptyJobs, log |-> logger]
    ELSE LET r == job_factory(cfg, Plugins, order, logger)
         IN  [raised |-> r.raised, config |-> cfg, jobs |-> r.jobs, log |-> r.log]

\* BlackBird.__init__: --version prints and calls sys.exit(0); _get_config
\* wraps whatever ConfigReader raises into BlackbirdError, the caught
\* exception object being the message; then _set_logger, _add_arguments and
\* _create_threads.  The result is [raised, message, config, jobs, log];
\* the exceptions of the other steps carry strings.
BlackBird_init(a, cfg, cfg_error, order) ==
    LET fails(exc, message, logger) ==
            [raised |-> exc, message |-> message, config |-> cfg,
             jobs |-> EmptyJobs, log |-> logger]
        l == set_logger(cfg, a)
        r == create_threads(add_arguments(cfg, a), order, l.logger)
    IN  IF a.show_version THEN fails("SystemExit", "str", EmptyLog)
        ELSE IF cfg_error THEN fails("BlackbirdError", "exception", EmptyLog)
        ELSE IF l.raised # "" THEN fails(l.raised, "str", l.logger)
        ELSE [raised |-> r.raised, message |-> "str", config |-> r.config,
              jobs |-> r.jobs, log |-> r.log]

\* Where main() is after an exception with that message, BlackbirdError
\* being of class kls: SystemExit(0) ends the process with status 0;
\* BlackbirdError is answered with 1 if the handler gets as far; anything
\* else, and what the handler raises, leaves main().
AfterRaise(exc, kls, message) ==
    IF exc = "SystemExit" THEN "exited_0"
    ELSE IF MainCatches(exc) /\ MainHandler(kls, message) = "" THEN "returned_1"
    ELSE "uncaught"

\* The exception main() ends with: the one raised, or the one its handler
\* raised while answering it.
LastRaised(exc, kls, message) ==
    IF MainCatches(exc) /\ MainHandler(kls, message) # ""
    THEN MainHandler(kls, message)
    ELSE exc

\* BlackBird() inside main()'s try block.
Construct ==
    /\ pc_main = "init"
    /\ \E kls \in ErrorClasses :
       LET r == BlackBird_init(args, config, config_error, section_order)
       IN  /\ error' = LastRaised(r.raised, kls, r.message)
           /\ log' = r.log
           /\ config' = r.config
           /\ IF r.raised = ""
              THEN /\ jobs' = r.jobs
                   /\ pc_main' = "constructed"
              ELSE /\ UNCHANGED jobs
                   /\ pc_main' = AfterRaise(r.raised, kls, r.message)
    /\ queue' = <<>>
    /\ UNCHANGED <<args, config_error, section_order, job_order, threads, threadnames,
                   thread, idx, join_target, join_deadline, cycle_started, now, dst,
                   hostname, delivered, produced, item_args, item, read>>

\* BlackBird.start().  Without --debug: the info line, then the arguments of
\* DaemonContext(...) are evaluated, the first being
\* logger.get_handler_fp(self.logger), which blackbird/utils/logger.py does
\* not define: AttributeError, before the daemon context or main_loop is
\* entered.  With --debug: the info line, then main_loop(); self.jobs.items()
\* lists the table in the order of the dict, the same in every cycle.
Start ==
    /\ pc_main = "constructed"
    /\ log' = Logged(log, "info", 0)
    /\ IF args.debug_mode
       THEN /\ job_order' \in Orderings(DOMAIN jobs)
            /\ pc_main' = "snapshot"
            /\ UNCHANGED error
       ELSE /\ error' = "AttributeError"
            /\ \E kls \in ErrorClasses : pc_main' = AfterRaise("AttributeError", kls, "str")
            /\ UNCHANGED job_order
    /\ UNCHANGED <<args, config, config_error, section_order, jobs, threads,
                   threadnames, thread, idx, join_target, join_deadline, cycle_started,
                   now, dst, hostname, queue, delivered, produced, item_args, item, read>>

-----------------------------------------------------------------------------
(* Executor                                                                *)

\* float(interval): the same number.
Float(interval) == interval

\* (NewExecutorLate: an Executor whose interval grows with its start time.)
NewExecutorLate(name, job, interval, t) ==
    [name |-> name, job |-> job, interval |-> Float(interval) + t,
     state |-> "SLEEPING", started_at |-> t, sleep_from |-> t,
     putting |-> 0, raised |-> ""]

\* Executor.__init__ and Thread.start(): run() begins with time.sleep.
NewExecutor(name, job, interval, t) ==
    [name |-> name, job |-> job, interval |-> Float(interval),
     state |-> "SLEEPING", started_at |-> t, sleep_from |-> t,
     putting |-> 0, raised |-> ""]

IsAlive(th) == th.state # "TERMINATED"

Alive == {i \in 1..Len(threads) : IsAlive(threads[i])}

\* time.sleep(self.interval) has returned.
SleepDoneNoWait(th, t) == TRUE

SleepDone(th, t) == t >= th.sleep_from + th.interval

\* (EndedAlive: the exception is recorded and run() goes back to sleep.)
EndedAlive(th, exc) == [th EXCEPT !.state = "SLEEPING", !.raised = exc]

\* An exception leaves run(): the thread has ended.  The times of a thread
\* that has ended are of no use and are cleared.
Ended(th, exc) == [th EXCEPT !.state = "TERMINATED", !.raised = exc,
                             !.started_at = 0, !.sleep_from = 0]

\* "except BlackbirdPluginError as error" (the class the import of line 16
\* names), after self.logger.error(error) has returned: the thread is still
\* alive, about to raise BlackbirdError.  Its times are of no use any more.
ExceptPluginError(th, t) == [th EXCEPT !.state = "HANDLING", !.started_at = 0,
                                       !.sleep_from = 0,
                                       !.raised = "BlackbirdPluginError"]

ProcessRuns == pc_main \notin Exited

WorkerFrame == <<args, config, config_error, section_order, jobs, job_order, pc_main, error,
                 threadnames, thread, idx, join_target, join_deadline, cycle_started,
                 now, dst, hostname, item_args, item, read>>

\* run(): time.sleep(self.interval) returns and self.job() is called.
Wake(w) ==
    /\ ProcessRuns
    /\ w \in Alive
    /\ threads[w].state = "SLEEPING"
    /\ SleepDone(threads[w], now)
    /\ threads' = [threads EXCEPT ![w].state = "EXECUTING"]
    /\ UNCHANGED <<log, queue, delivered, produced>>
    /\ UNCHANGED WorkerFrame

\* self.job() returns; the while loop goes back to time.sleep.
CallbackReturn(w) ==
    /\ ProcessRuns
    /\ w \in Alive
    /\ threads[w].state = "EXECUTING"
    /\ threads[w].putting = 0
    /\ threads' = [threads EXCEPT ![w].state = "SLEEPING", ![w].sleep_from = now]
    /\ UNCHANGED <<log, queue, delivered, produced>>
    /\ UNCHANGED WorkerFrame

\* self.logger.error(error) with the exception as the record's message: the
\* handler formats the record with str(error), which is error.__str__().
\* For a class of the shape of plugins/base.py it fails unless the
\* exception's message is a string; logging answers the failure itself
\* (Handler.handleError) and the entry is not written.
LoggerError(lg, who, kls, message) ==
    IF BlackbirdError_str(kls, message) = "str" THEN Logged(lg, "error", who) ELSE lg

\* self.job() raises BlackbirdPluginError, carrying a string or an exception
\* object: the handler calls self.logger.error(error).
CallbackRaisesPluginError(w) ==
    /\ ProcessRuns
    /\ w \in Alive
    /\ threads[w].state = "EXECUTING"
    /\ threads[w].putting = 0
    /\ \E kls \in ErrorClasses, message \in Messages :
          log' = LoggerError(log, w, kls, message)
    /\ threads' = [threads EXCEPT ![w] = ExceptPluginError(@, now)]
    /\ UNCHANGED <<queue, delivered, produced>>
    /\ UNCHANGED WorkerFrame

\* The handler's "raise BlackbirdError(error)": the exception leaves run(),
\* the thread ends and threading.enumerate() no longer lists it.
HandlerRaises(w) ==
    /\ ProcessRuns
    /\ w \in Alive
    /\ threads[w].state = "HANDLING"
    /\ threads' = [threads EXCEPT ![w] = Ended(@, "BlackbirdPluginError")]
    /\ UNCHANGED <<log, queue, delivered, produced>>
    /\ UNCHANGED WorkerFrame

\* self.job() raises anything else: no handler, the exception leaves run().
CallbackRaisesOther(w) ==
    /\ ProcessRuns
    /\ w \in Alive
    /\ threads[w].state = "EXECUTING"
    /\ threads[w].putting = 0
    /\ threads' = [threads EXCEPT ![w] = Ended(@, "Exception")]
    /\ UNCHANGED <<log, queue, delivered, produced>>
    /\ UNCHANGED WorkerFrame

-----------------------------------------------------------------------------
(* The bounded queue: Queue.Queue(maxsize) shared by the collectors.       *)

\* Queue.put blocks while the queue is full; maxsize <= 0 is unbounded.
Full(q, maxsize) == maxsize > 0 /\ Len(q) >= maxsize

\* The callback calls queue.put(item) with a fresh item.
CallbackOffers(w) ==
    /\ ProcessRuns
    /\ w \in Alive
    /\ threads[w].state = "EXECUTING"
    /\ threads[w].putting = 0
    /\ produced < MaxItems
    /\ produced' = produced + 1
    /\ threads' = [threads EXCEPT ![w].putting = produced + 1]
    /\ UNCHANGED <<log, queue, delivered>>
    /\ UNCHANGED WorkerFrame

\* queue.put(item) returns: there was room, the item is in the queue.
PutReturns(w) ==
    /\ ProcessRuns
    /\ w \in Alive
    /\ threads[w].putting # 0
    /\ ~Full(queue, QueueMaxsize(config))
    /\ queue' = Append(queue, threads[w].putting)
    /\ threads' = [threads EXCEPT ![w].putting = 0]
    /\ UNCHANGED <<log, delivered, produced>>
    /\ UNCHANGED WorkerFrame

\* The sender takes the oldest item: queue.get().
Dequeue ==
    /\ ProcessRuns
    /\ pc_main \in LoopPcs
    /\ queue # <<>>
    /\ delivered' = Append(delivered, Head(queue))
    /\ queue' = Tail(queue)
    /\ UNCHANGED <<log, threads, produced>>
    /\ UNCHANGED WorkerFrame

-----------------------------------------------------------------------------
(* BlackBird.start.main_loop                                               *)

\* [thread.name for thread in threading.enumerate()]
EnumerateNamesMainOnly(ths) == {"MainThread"}

\* (EnumerateNamesSleeping lists, of the Executors, only those inside
\* time.sleep.)
EnumerateNamesSleeping(ths) ==
    {"MainThread"} \cup {ths[i].name : i \in {j \in 1..Len(ths) : ths[j].state = "SLEEPING"}}

EnumerateNames(ths) ==
    {"MainThread"} \cup {ths[i].name : i \in {j \in 1..Len(ths) : IsAlive(ths[j])}}

MainFrame == <<args, config, config_error, section_order, jobs, job_order, now, dst, hostname, queue,
               delivered, produced, item_args, item, read>>

\* The first statement of a cycle.  threading.enumerate() lists the live
\* threads in the order of a dict keyed by thread ident, so the thread the
\* comprehension variable is left bound to is any live thread: 0 is the main
\* thread itself.  With an empty job table the for loop has no iteration.
Snapshot ==
    /\ pc_main = "snapshot"
    /\ threadnames' = EnumerateNames(threads)
    /\ thread' \in {0} \cup Alive
    /\ idx' = 1
    /\ cycle_started' = {}
    /\ pc_main' = IF Len(job_order) = 0 THEN "snapshot" ELSE "loop"
    /\ UNCHANGED <<error, log, threads, join_target, join_deadline>>
    /\ UNCHANGED MainFrame

\* One iteration of the for loop, up to the join(1) call: a new Executor is
\* started for a name the snapshot lacks.
LoopStart ==
    /\ pc_main = "loop"
    /\ job_order[idx] \notin threadnames
    /\ Len(threads) < MaxStarts
    /\ LET job_name == job_order[idx]
           concrete_job == jobs[job_name]
       IN  /\ threads' = Append(threads, NewExecutor(job_name, concrete_job.method,
                                                     concrete_job.interval, now))
           /\ cycle_started' = cycle_started \cup {job_name}
    /\ join_target' = Len(threads) + 1
    /\ join_deadline' = now + 1
    /\ pc_main' = "join"
    /\ UNCHANGED <<error, log, threadnames, thread, idx>>
    /\ UNCHANGED MainFrame

\* One iteration of the for loop for a name the snapshot holds: thread.join(1)
\* on the leaked comprehension variable.  Thread.join raises RuntimeError
\* ("cannot join current thread") when that is the main thread; nothing in
\* main_loop, start or main catches it.
LoopJoin ==
    /\ pc_main = "loop"
    /\ job_order[idx] \in threadnames
    /\ IF thread = 0
       THEN /\ error' = "RuntimeError"
            /\ \E kls \in ErrorClasses : pc_main' = AfterRaise("RuntimeError", kls, "str")
            /\ UNCHANGED <<join_target, join_deadline>>
       ELSE /\ join_target' = thread
            /\ join_deadline' = now + 1
            /\ pc_main' = "join"
            /\ UNCHANGED error
    /\ UNCHANGED <<log, threads, threadnames, thread, idx, cycle_started>>
    /\ UNCHANGED MainFrame

\* join(1) returns: the thread has ended or one second has passed.  The for
\* loop goes on, and after its last iteration the while loop starts over.
JoinReturns ==
    /\ pc_main = "join"
    /\ \/ ~IsAlive(threads[join_target])
       \/ now >= join_deadline
    /\ idx' = idx + 1
    /\ pc_main' = IF idx + 1 > Len(job_order) THEN "snapshot" ELSE "loop"
    /\ join_target' = 0
    /\ join_deadline' = 0
    /\ UNCHANGED <<error, log, threads, threadnames, thread, cycle_started>>
    /\ UNCHANGED MainFrame

\* One second passes.
Tick ==
    /\ ProcessRuns
    /\ now < MaxTime
    /\ now' = now + 1
    /\ UNCHANGED <<args, config, config_error, section_order, jobs, job_order, pc_main, error,
                   log, threads, threadnames, thread, idx, join_target, join_deadline,
                   cycle_started, dst, hostname, queue, delivered, produced, item_args, item, read>>

-----------------------------------------------------------------------------
(* start() in debug mode: main_loop and the Executor threads.              *)

Opts(module) == "module" :> module

\* A global section without the logging options.
GlobalBare(maxq) == "max_queue_length" :> maxq

\* A global section: the queue length, the three logging options
\* _set_logger reads and the user and group of the daemon; the intervals are
\* optional.  At log_level info every call of logger.info, warn and error
\* below writes an entry.
Global(maxq) ==
    GlobalBare(maxq) @@ ("log_file" :> "blackbird.log") @@ ("log_level" :> "info")
                     @@ ("log_format" :> "ltsv") @@ ("user" :> "bbd") @@ ("group" :> "bbd")

\* Configurations main_loop is run on: intervals of one and two seconds, a
\* queue of one item, two jobs or one.
RunConfigs ==
    { ("global" :> (Global(1) @@ "interval" :> 1))
        @@ ("web" :> (Opts("lld") @@ "lld_interval" :> 2)),
      ("global" :> Global(1)) @@ ("web" :> (Opts("metric") @@ "interval" :> 1)) }

InitCommon ==
    /\ job_order = <<>>
    /\ error = ""
    /\ threads = <<>>
    /\ threadnames = {}
    /\ thread = 0
    /\ idx = 1
    /\ join_target = 0
    /\ join_deadline = 0
    /\ cycle_started = {}
    /\ queue = <<>>
    /\ delivered = <<>>
    /\ produced = 0
    /\ read = None
    /\ item = None

\* main_loop is reached through the debug branch of start() only, so the
\* runs begin where start() is called on a BlackBird object whose
\* args.debug_mode is set, its config and job table being what
\* _add_arguments and _create_threads leave.  (BlackBird() itself does not
\* get that far in debug mode: see logger_factory.)  The logger is the
\* logger 'blackbird' as logger_factory leaves it for sys.stdout: the level
\* is 'debug' and, WatchedFileHandler having raised, there is no handler.
InitStart(cfgs) ==
    /\ args = Args(TRUE, FALSE)
    /\ config_error = FALSE
    /\ \E c \in cfgs : \E o \in Orderings(DOMAIN c) :
          LET r == create_threads(add_arguments(c, args), o, set_logger(c, args).logger)
          IN  /\ r.raised = ""
              /\ config = r.config
              /\ section_order = o
              /\ jobs = r.jobs
              /\ log = r.log
    /\ pc_main = "constructed"
    /\ now = 0
    /\ dst = 0
    /\ hostname = "vm"
    /\ item_args = None
    /\ InitCommon

Init == InitStart(RunConfigs)

Next ==
    \/ Start
    \/ Snapshot
    \/ LoopStart
    \/ LoopJoin
    \/ JoinReturns
    \/ Tick
    \/ Dequeue
    \/ \E w \in 1..MaxStarts :
        \/ Wake(w)
        \/ CallbackReturn(w)
        \/ CallbackRaisesPluginError(w)
        \/ HandlerRaises(w)
        \/ CallbackRaisesOther(w)
        \/ CallbackOffers(w)
        \/ PutReturns(w)

Spec == Init /\ [][Next]_vars

-----------------------------------------------------------------------------
(* main() on a family of configurations and command lines.                 *)

NoOpts == [k \in {} |-> 0]

SectionNames == {"web", "web-build_items", "db"}

ModuleOpts ==
    {NoOpts} \cup {Opts(m) : m \in {"legacy", "metric", "lld", "all3", "idle", "broken",
                                    "abstract", "ghost"}}

SectionOptions ==
    {m @@ i @@ l : m \in ModuleOpts,
                   i \in {NoOpts, "interval" :> 5},
                   l \in {NoOpts, "lld_interval" :> 7}}

GlobalOptions ==
    {Global(1) @@ i @@ l : i \in {NoOpts, "interval" :> 30},
                           l \in {NoOpts, "lld_interval" :> 300}}

FactoryConfigs ==
    {("global" :> g) @@ secs :
        g \in GlobalOptions,
        secs \in UNION {[S -> SectionOptions] :
                            S \in {T \in SUBSET SectionNames : Cardinality(T) <= 2}}}

\* The command lines: plain, --debug, --version.
CommandLines == {Args(FALSE, FALSE), Args(TRUE, FALSE), Args(FALSE, TRUE)}

\* Values of the global section's log_level: two that logger_factory knows,
\* the second above the level of job_factory's entries, and one it does not.
LogLevelOptions == {"info", "error", "verbose"}

\* Configurations every command line is tried on, with and without a
\* ConfigReader failure: those of RunConfigs, one whose global section lacks
\* the logging options, a collector with all three callbacks under each
\* log_level, and a collector whose constructor raises BlackbirdError.
StartupConfigs ==
    RunConfigs
    \cup {("global" :> GlobalBare(1)) @@ ("web" :> (Opts("metric") @@ "interval" :> 1))}
    \cup {("global" :> [Global(1) EXCEPT !["log_level"] = l]) @@ ("web" :> Opts("all3")) :
              l \in LogLevelOptions}
    \cup {("global" :> Global(1)) @@ ("web" :> Opts("refusing"))}

InitFactory ==
    /\ \/ /\ args = Args(FALSE, FALSE)
          /\ config \in FactoryConfigs
          /\ config_error = FALSE
       \/ /\ args \in CommandLines
          /\ config \in StartupConfigs
          /\ config_error \in BOOLEAN
    /\ section_order \in Orderings(DOMAIN config)
    /\ jobs = EmptyJobs
    /\ log = EmptyLog
    /\ pc_main = "init"
    /\ now = 0
    /\ dst = 0
    /\ hostname = "vm"
    /\ item_args = None
    /\ InitCommon

NextFactory == Construct \/ Start

SpecFactory == InitFactory /\ [][NextFactory]_vars

-----------------------------------------------------------------------------
(* Items: ItemBase and DiscoveryItem.                                      *)

\* int(time.mktime(datetime.datetime.now().utctimetuple())): the fields of
\* the local wall clock with tm_isdst forced to 0, read back as local
\* standard time.  t is the time in seconds since the epoch and d the
\* daylight saving in effect, in seconds: the wall clock is d seconds ahead
\* of standard time (behind it for a negative d), and so is the result.
UnixTimestamp(t, d) == t + d

\* The daylight saving of a zone at some time of the year: none, half an hour
\* (Lord Howe Island), one hour, two hours (Antarctica/Troll), and one hour
\* the other way (Europe/Dublin, whose winter time is the one flagged
\* tm_isdst).
DstOffsets == {-3600, 0, 1800, 3600, 7200}

\* ItemBase.__set_timestamp
set_timestamp(clock, t, d) == IF clock = None THEN UnixTimestamp(t, d) ELSE clock[1]

\* ItemBase.__init__(key, value, host, clock)
ItemBase_init(key, value, host, clock, t, d) ==
    [key |-> key, value |-> value, host |-> host, clock |-> set_timestamp(clock, t, d)]

\* json.dumps (ensure_ascii) of a character: the characters from " " to "~"
\* are written as they are but for the quote and the backslash; the others
\* are escaped, the control characters that have a short escape by it, the
\* rest as \uXXXX.  Escapes lists the escaped characters of the alphabet the
\* items are built from.
Plain ==
    " !#$%&'()*+,-./0123456789:;<=>?@ABCDEFGHIJKLMNOPQRSTUVWXYZ[]^_abcdefghijklmnopqrstuvwxyz{|}~"

Escapes ==
    ("\"" :> "\\\"") @@ ("\\" :> "\\\\") @@ ("\n" :> "\\n") @@ ("\r" :> "\\r")
    @@ ("\t" :> "\\t") @@ ("\f" :> "\\f") @@ ("é" :> "\\u00e9")

JsonChar(c) ==
    IF c \in {SubSeq(Plain, i, i) : i \in 1..Len(Plain)} THEN c ELSE Escapes[c]

RECURSIVE JsonChars(_, _)
JsonChars(str, i) ==
    IF i > Len(str) THEN ""
    ELSE JsonChar(SubSeq(str, i, i)) \o JsonChars(str, i + 1)

\* json.dumps of a str, of a dict (its pairs in iteration order, from
\* position i on) and of a list of dicts (from position i on), with the
\* default separators ", " and ": ".
JsonString(str) == "\"" \o JsonChars(str, 1) \o "\""

RECURSIVE JsonPairs(_, _)
JsonPairs(m, i) ==
    IF i > Len(m) THEN ""
    ELSE JsonString(m[i][1]) \o ": " \o JsonString(m[i][2])
         \o (IF i < Len(m) THEN ", " ELSE "") \o JsonPairs(m, i + 1)

JsonDict(m) == "{" \o JsonPairs(m, 1) \o "}"

RECURSIVE JsonElements(_, _)
JsonElements(v, i) ==
    IF i > Len(v) THEN ""
    ELSE JsonDict(v[i]) \o (IF i < Len(v) THEN ", " ELSE "") \o JsonElements(v, i + 1)

JsonList(v) == "[" \o JsonElements(v, 1) \o "]"

\* DiscoveryItem._generate: json.dumps({'data': self.value})
DiscoveryItem_generate(self) ==
    [host |-> self.host, clock |-> self.clock, key |-> self.key,
     value |-> "{" \o JsonString("data") \o ": " \o JsonList(self.value) \o "}"]

\* DiscoveryItem.__init__(key, value, host, clock): the base class is
\* initialised with key, value and host, so its clock parameter is None.
DiscoveryItem(key, value, host, clock, t, d) ==
    LET self == ItemBase_init(key, value, host, None, t, d)
    IN  [key |-> self.key, value |-> self.value, host |-> self.host,
         clock |-> self.clock, data |-> DiscoveryItem_generate(self)]

ItemValues ==
    { <<>>,
      << << <<"{#H}", "a">> >> >>,
      << << <<"{#H}", "a">> >>, << <<"{#H}", "b">> >> >>,
      << << <<"{#IF}", "eth0">>, <<"{#MAC}", "aa">> >> >>,
      << << <<"{#N}", "a\"b\\c">> >> >>,
      << << <<"{#N}", "café\n">> >> >> }

\* Host names a machine may have.
Hostnames == {"vm", "localhost"}

ItemArgs ==
    [key : {"disc.LLD"},
     value : ItemValues,
     host : {None, Some("node1")},
     clock : {None, Some(0), Some(946652400)}]

\* A collector constructs a DiscoveryItem.
ConstructItem ==
    /\ item = None
    /\ item_args # None
    /\ LET a == item_args[1]
       IN  item' = Some(DiscoveryItem(a.key, a.value, a.host, a.clock, now, dst))
    /\ UNCHANGED <<args, config, config_error, section_order, jobs, job_order, pc_main, error,
                   log, threads, threadnames, thread, idx, join_target, join_deadline,
                   cycle_started, now, dst, hostname, queue, delivered, produced, item_args,
                   read>>

InitItem ==
    /\ args = Args(FALSE, FALSE)
    /\ config = ("global" :> Global(1))
    /\ config_error = FALSE
    /\ section_order = <<"global">>
    /\ jobs = EmptyJobs
    /\ log = EmptyLog
    /\ pc_main = "items"
    /\ now = 0
    /\ dst \in DstOffsets
    /\ hostname \in Hostnames
    /\ item_args \in {Some(a) : a \in ItemArgs}
    /\ InitCommon

\* The clock attribute of an item, read at time t: the attribute __init__ set.
ItemClock(self, t, d) == self.clock

\* DiscoveryItem.data, read at time t: the dict _generate filled in __init__.
\* (DiscoveryItem_dataLive fills the clock in again at every read.)
DiscoveryItem_dataLive(self, t, d) == [self.data EXCEPT !.clock = UnixTimestamp(t, d)]

DiscoveryItem_data(self, t, d) == self.data

\* A consumer reads the item's clock and its data, at any time after the
\* construction and any number of times.
ReadItem ==
    /\ item # None
    /\ read' = Some([at |-> now,
                     clock |-> ItemClock(item[1], now, dst),
                     data |-> DiscoveryItem_data(item[1], now, dst)])
    /\ UNCHANGED <<args, config, config_error, section_order, jobs, job_order, pc_main, error,
                   log, threads, threadnames, thread, idx, join_target, join_deadline,
                   cycle_started, now, dst, hostname, queue, delivered, produced, item_args,
                   item>>

NextItem == ConstructItem \/ ReadItem \/ Tick

SpecItem == InitItem /\ [][NextItem]_vars

-----------------------------------------------------------------------------
(* Properties of the supervisor and of the Executor threads (Spec).        *)

SameName(n) == {i \in 1..Len(threads) : threads[i].name = n}

\* C1: in every reachable state every job name of the job table has at most
\* one live Executor thread, whatever the interleaving of supervisor cycles
\* and thread terminations.
AtMostOneLiveWorkerPerName ==
    \A n \in DOMAIN jobs : Cardinality(SameName(n) \cap Alive) <= 1

\* C1's case: main_loop is at a job whose name is in the snapshot, the live
\* thread of that name being a respawn of one that has ended.
RespawnedWorkerSeenAlive ==
    /\ pc_main = "loop"
    /\ job_order[idx] \in threadnames
    /\ \E i, j \in SameName(job_order[idx]) :
          i < j /\ ~IsAlive(threads[i]) /\ IsAlive(threads[j])

\* C2: every cycle of main_loop starts a thread for every job whose name its
\* snapshot lacks: once a cycle is over (the next one is about to begin, or
\* the loop has ended), every job absent from the cycle's snapshot has been
\* started in that cycle, bound to the job's callable and interval.
RestartOnDeath ==
    (pc_main \in {"snapshot", "uncaught", "returned_1"} /\ threadnames # {}) =>
        \A n \in DOMAIN jobs :
            n \notin threadnames =>
                /\ n \in cycle_started
                /\ \E i \in SameName(n) : /\ threads[i].job = jobs[n].method
                                          /\ threads[i].interval = jobs[n].interval

\* C4: an Executor calls its callback only out of a sleep that has lasted the
\* job's interval, the first sleep beginning when the thread is started; a
\* thread enters EXECUTING from SLEEPING only, and a new thread is SLEEPING.
SleepsBeforeEveryInvocation ==
    [][ /\ \A w \in 1..Len(threads) :
              (threads[w].state # "EXECUTING" /\ threads'[w].state = "EXECUTING") =>
                  /\ threads[w].state = "SLEEPING"
                  /\ threads[w].sleep_from >= threads[w].started_at
                  /\ now >= threads[w].sleep_from + jobs[threads[w].name].interval
        /\ \A w \in (Len(threads) + 1)..Len(threads') :
              /\ threads'[w].state = "SLEEPING"
              /\ threads'[w].started_at = now
              /\ threads'[w].sleep_from = now ]_vars

\* C4's case: a respawned thread is executing its callback.
RespawnedWorkerExecuting ==
    \E i, j \in 1..Len(threads) :
        /\ i < j
        /\ threads[i].name = threads[j].name
        /\ threads[j].state = "EXECUTING"

MainLoopNeverExits == threadnames # {} => pc_main \in LoopPcs

\* C13: the step main_loop takes for a job whose name is in the snapshot
\* starts no thread, leaves every thread, the job table and the log as they
\* are, raises nothing and leaves the main thread inside the loop, on its way
\* to the next job.
PresentJobStepTakesNoAction ==
    [][(pc_main = "loop" /\ job_order[idx] \in threadnames /\ pc_main' # pc_main) =>
          /\ threads' = threads
          /\ jobs' = jobs
          /\ log' = log
          /\ error' = error
          /\ pc_main' \in LoopPcs]_vars

\* The threads of name n that are inside the job's callback.
Invoking(n) == {w \in SameName(n) : threads[w].state = "EXECUTING" \/ threads[w].putting # 0}

\* C14: of the threads ever started for one job name at most one is inside
\* the callback; an invocation begins only in a thread that was asleep (its
\* previous invocation has returned) while every other thread of the name has
\* ended (its last invocation has raised) with no put pending; and the queue
\* is first-in first-out: what has been put, delivered items first, only
\* grows, at its end, by the item of the put that returns.  A job's items are
\* therefore queued and delivered in the order of its invocations.
InvocationsOfAJobInTotalOrder ==
    /\ [](\A n \in DOMAIN jobs : Cardinality(Invoking(n)) <= 1)
    /\ [][\A w \in 1..Len(threads') :
            (/\ threads'[w].state = "EXECUTING"
             /\ (w > Len(threads) \/ threads[w].state # "EXECUTING")) =>
                /\ w <= Len(threads)
                /\ threads[w].state = "SLEEPING"
                /\ \A v \in SameName(threads[w].name) \ {w} :
                      /\ threads[v].state = "TERMINATED"
                      /\ threads[v].raised # ""
                      /\ threads[v].putting = 0]_vars
    /\ [][\/ delivered' \o queue' = delivered \o queue
          \/ \E w \in 1..Len(threads) :
                /\ threads[w].putting # 0
                /\ threads'[w].putting = 0
                /\ delivered' \o queue' = Append(delivered \o queue, threads[w].putting)]_vars

\* C14's case: the only job has put an item, a thread of it has raised, and a
\* later thread of it is inside the callback, putting the job's second item.
SecondGenerationPutsAfterFirst ==
    \E i, j \in 1..Len(threads) :
        /\ i < j
        /\ threads[i].name = threads[j].name
        /\ threads[i].raised # ""
        /\ threads[j].putting = 2
        /\ 1 \in Range(delivered \o queue)
        /\ Cardinality(DOMAIN jobs) = 1

JobTableReadOnly ==
    /\ [][pc_main # "init" => jobs' = jobs]_vars
    /\ [][\A w \in 1..Len(threads) :
            /\ w <= Len(threads')
            /\ threads'[w].name = threads[w].name
            /\ threads'[w].job = threads[w].job
            /\ threads'[w].interval = threads[w].interval]_vars
    /\ [](\A w \in 1..Len(threads) :
            /\ threads[w].name \in DOMAIN jobs
            /\ threads[w].job = jobs[threads[w].name].method
            /\ threads[w].interval = jobs[threads[w].name].interval
            /\ \A v \in SameName(threads[w].name) :
                  /\ threads[v].job = threads[w].job
                  /\ threads[v].interval = threads[w].interval)

\* C16's case: three threads have been started for one name, the third is
\* inside the callback.
ThirdGenerationExecuting ==
    \E n \in DOMAIN jobs :
        /\ Cardinality(SameName(n)) = 3
        /\ threads[3].state = "EXECUTING"

-----------------------------------------------------------------------------
(* Properties of the bounded queue (Spec).                                 *)

InPut == {threads[i].putting : i \in 1..Len(threads)} \ {0}

\* Every item offered so far is in exactly one place, once.
Conserved ==
    /\ 1..produced = InPut \cup Range(queue) \cup Range(delivered)
    /\ InPut \cap Range(queue) = {}
    /\ InPut \cap Range(delivered) = {}
    /\ Range(queue) \cap Range(delivered) = {}
    /\ Cardinality(Range(queue)) = Len(queue)
    /\ Cardinality(Range(delivered)) = Len(delivered)
    /\ \A i, j \in 1..Len(threads) :
          (threads[i].putting # 0 /\ threads[i].putting = threads[j].putting) => i = j

\* C3: with a positive max_queue_length the queue never holds more items than
\* that; a producer whose put meets a full queue stays as it is (it neither
\* drops its item nor raises) until there is room, and its put then appends
\* the item; every item offered is in a put, in the queue or delivered,
\* exactly once.
BoundedQueueBlocksAndKeeps ==
    /\ [](config["global"]["max_queue_length"] > 0 =>
            /\ Len(queue) <= config["global"]["max_queue_length"]
            /\ Conserved)
    /\ [][\A w \in 1..Len(threads) :
            threads[w].putting # 0 =>
                /\ Len(queue) >= config["global"]["max_queue_length"] =>
                      threads'[w] = threads[w]
                /\ threads'[w].putting # threads[w].putting =>
                      /\ threads'[w].putting = 0
                      /\ queue' = Append(queue, threads[w].putting)]_vars

\* C3's case: the queue is full, a producer is blocked in put and the sender
\* has not yet taken anything.
ProducerBlockedOnFullQueue ==
    \E w \in Alive :
        /\ threads[w].putting # 0
        /\ Len(queue) = config["global"]["max_queue_length"]

-----------------------------------------------------------------------------
(* Properties of main() and job_factory (SpecFactory).                     *)

Callbacks == {"looped_method", "build_items", "build_discovery_items"}

\* The (section, callback) pairs of a configuration whose sections all name a
\* registered module.
Pairs(cfg) ==
    {p \in (DOMAIN cfg \ {"global"}) \X Callbacks :
        p[2] \in Plugins[cfg[p[1]]["module"]].callbacks}

\* C6: the job table job_factory returns holds exactly one descriptor per
\* (non-global section, recognized callback of that section's collector),
\* named "<section>-<callback>" and bound to that collector's callback; no
\* two pairs share a name, so the table has as many entries as there are pairs.
OneDescriptorPerPair ==
    pc_main = "constructed" =>
        /\ DOMAIN jobs = {p[1] \o "-" \o p[2] : p \in Pairs(config)}
        /\ Cardinality(DOMAIN jobs) = Cardinality(Pairs(config))
        /\ \A p \in Pairs(config) : jobs[p[1] \o "-" \o p[2]].method = p

\* C6's case: two sections, one named like a job of the other, each with all
\* three callbacks: six descriptors.
SixDescriptors ==
    /\ pc_main = "constructed"
    /\ DOMAIN config = {"global", "web", "web-build_items"}
    /\ Cardinality(DOMAIN jobs) = 6

\* C9: after BlackBird() has met a failure of job_factory (a section with no
\* module key, an unknown module, a collector that cannot be constructed),
\* main() has caught BlackbirdError and returned 1; main_loop is not entered
\* and no thread is started.
StartupErrorsAreBlackbirdError ==
    (/\ pc_main # "init"
     /\ ~args.show_version
     /\ ~config_error
     /\ set_logger(config, args).raised = ""
     /\ job_factory(config, Plugins, section_order, log).raised # "") =>
        /\ error = "BlackbirdError"
        /\ pc_main = "returned_1"
        /\ threads = <<>>
        /\ threadnames = {}

\* C7: a descriptor's interval is the section's value of the job's interval
\* option (lld_interval for discovery jobs, interval for the others) if the
\* section has one, else the global section's if it has one, else the default
\* of the kind (600 for discovery jobs, 60 for the others).
IntervalResolved ==
    pc_main = "constructed" =>
        \A p \in Pairs(config) :
            LET key == IF p[2] = "build_discovery_items" THEN "lld_interval" ELSE "interval"
                D == IF p[2] = "build_discovery_items" THEN 600 ELSE 60
                S == config[p[1]]
                G == config["global"]
            IN  jobs[p[1] \o "-" \o p[2]].interval =
                    IF key \in DOMAIN S THEN S[key]
                    ELSE IF key \in DOMAIN G THEN G[key]
                    ELSE D

\* C7's case: one table with a section-level, a global-level and a default
\* interval.
ThreeWaysResolved ==
    /\ pc_main = "constructed"
    /\ {"web-build_items", "web-build_discovery_items", "db-looped_method"} \subseteq DOMAIN jobs
    /\ jobs["web-build_items"].interval = 5
    /\ jobs["web-build_discovery_items"].interval = 300
    /\ jobs["db-looped_method"].interval = 60
    /\ "interval" \in DOMAIN config["web"]
    /\ "interval" \notin DOMAIN config["global"]

-----------------------------------------------------------------------------
(* Properties of DiscoveryItem (SpecItem).                                 *)

\* C8: a DiscoveryItem constructed with key k, host h, value v and an explicit
\* clock c has data = {host: h, clock: c, key: k, value: the JSON text of
\* {"data": v}}.
DiscoveryItemDataWithExplicitClock ==
    (item # None /\ item_args[1].clock # None) =>
        LET a == item_args[1]
        IN  item[1].data = [host |-> a.host, clock |-> a.clock[1], key |-> a.key,
                            value |-> "{\"data\": " \o JsonList(a.value) \o "}"]

\* C12: an item constructed without an explicit clock gets the timestamp of
\* its construction, in the clock attribute and in data.clock; no step changes
\* a constructed item, and every read of the clock and of data.clock, at any
\* later time, returns the value set at construction.
ClockIsConstructionSnapshot ==
    /\ [](read # None =>
            /\ item # None
            /\ read[1].clock = item[1].clock
            /\ read[1].data.clock = item[1].clock)
    /\ [][item # None => item' = item]_vars
    /\ [][(item = None /\ item' # None /\ item_args[1].clock = None) =>
            /\ item'[1].clock = UnixTimestamp(now, dst)
            /\ item'[1].data.clock = UnixTimestamp(now, dst)]_vars

\* C12's case: an item constructed without a clock is read at a time whose
\* timestamp is later than the one the item holds.
ClockReadLater ==
    /\ read # None
    /\ item_args[1].clock = None
    /\ UnixTimestamp(read[1].at, dst) > read[1].clock

\* C17: an item constructed without a host has the local hostname as its host
\* attribute and as the host of its data; an item constructed with a host has
\* that host in both.
HostDefaultsToLocalHostname ==
    item # None =>
        LET a == item_args[1]
            expected == IF a.host = None THEN Some(hostname) ELSE a.host
        IN  /\ item[1].host = expected
            /\ item[1].data.host = expected

-----------------------------------------------------------------------------
(* Jobs whose callback raises BlackbirdPluginError on every invocation     *)
(* (SpecRetry).                                                            *)

\* The one-job configurations of RunConfigs.
RetryConfigs ==
    {c \in RunConfigs :
        \A o \in Orderings(DOMAIN c) :
            Cardinality(DOMAIN create_threads(c, o, EmptyLog).jobs) = 1}

InitRetry == InitStart(RetryConfigs)

\* The main thread's steps.
MainNext == Start \/ Snapshot \/ LoopStart \/ LoopJoin \/ JoinReturns

\* Every invocation fails: the callback neither returns nor enqueues.
NextRetry ==
    \/ Start
    \/ Snapshot
    \/ LoopStart
    \/ LoopJoin
    \/ JoinReturns
    \/ Tick
    \/ \E w \in 1..MaxStarts :
        \/ Wake(w)
        \/ CallbackRaisesPluginError(w)
        \/ HandlerRaises(w)

\* The main thread and every Executor are threads the operating system
\* schedules, and the clock advances: each is weakly fair.
SpecRetry ==
    /\ InitRetry
    /\ [][NextRetry]_vars
    /\ WF_vars(MainNext)
    /\ WF_vars(Tick)
    /\ \A w \in 1..MaxStarts :
          /\ WF_vars(Wake(w))
          /\ WF_vars(CallbackRaisesPluginError(w))
          /\ WF_vars(HandlerRaises(w))

\* C11: a job that fails on every invocation is retried for ever.  Its safety
\* part: the error entries written for a job are as many as its failed
\* invocations, every invocation follows a sleep of one interval in its thread,
\* and the job is never disabled for good: once main_loop runs, the process
\* (the supervisor that restarts the job, and its daemon threads) never ends.
FailingJobRetriedForEver ==
    \A n \in DOMAIN jobs :
        /\ Cardinality({w \in SameName(n) : threads[w].raised = "BlackbirdPluginError"})
              = Cardinality({w \in SameName(n) : Count(log, "error", w) = 1})
        /\ \A w \in SameName(n) :
              /\ Count(log, "error", w) <= 1
              /\ threads[w].state = "EXECUTING" =>
                    now >= threads[w].sleep_from + jobs[n].interval
        /\ threadnames # {} => ProcessRuns

=============================================================================
